---- MODULE Spec2Model ----
(***************************************************************************)
(* Model of the soft-navigation engine of theme/js/penguin.js: the click   *)
(* and submit listeners, navigate / navigateToPage, the before-preparation *)
(* loader, performPageSwap / dispatchBeforeSwap / swapDocument,            *)
(* updateLocation, the history state helpers and handlePopState.           *)
(*                                                                         *)
(* One TLA+ step is one browser task (a click, a fetch completing, a timer *)
(* firing, an animation frame) run up to the point where the code next     *)
(* waits for something outside the event loop, or one microtask taken from *)
(* the microtask queue.  No task starts while microtasks are queued.       *)
(***************************************************************************)
EXTENDS Integers, Sequences, FiniteSets, TLC

\* ---------------------------------------------------------------- bounds
\* navigation requests in the specifications that let requests overlap
MaxNavs == 2
\* navigation requests in the other specifications
MaxSolo == 1
\* largest scroll offset, and number of scroll gestures of the user
MaxScroll == 1
MaxScrolls == 1
MaxPrefetch == 2
MaxPersist == 2

Navs == 1..MaxNavs
ScrollVals == 0..MaxScroll

\* ------------------------------------------------------------ value space
Undef == [undef |-> TRUE]
Null == [null |-> TRUE]

URL(o, p, h) == [origin |-> o, path |-> p, hash |-> h]
\* path stands for pathname + search: the code only ever compares the two together
SelfURLs == {URL("self", "/a", ""), URL("self", "/a", "#x"), URL("self", "/b", "")}
OtherURL == URL("other", "/a", "")
URLs == SelfURLs \cup {OtherURL}

\* a parsed document: the page it was served for and whether it carries
\* <meta name="mkdocs-view-transitions-enabled">
Doc(p, m) == [page |-> p, marker |-> m]

State(i, x, y) == [index |-> i, scrollX |-> x, scrollY |-> y]
Entry(u, s) == [url |-> u, st |-> s]

\* what made the links be scanned: the call of line 231 ("setup") or a
\* page-load event, dispatched at line 1023 ("DOMContentLoaded"), by the
\* listener of line 675 ("load") or for navigation n at line 293
Cause(kind, n) == [kind |-> kind, nav |-> n]

VARIABLES
    supportsViewTransitions, \* line 34
    fallbackMeta,            \* content of meta mkdocs-view-transitions-fallback
    dom,                     \* live document: root, head, body and root attributes
    history,                 \* session history entries of this document
    hpos,                    \* position of the current entry in history
    scroll,                  \* window.scrollX / window.scrollY
    navigationIndex,         \* line 39
    currentLocation,         \* line 38
    viewTransition,          \* line 38: navigation whose handle the variable holds, 0 = undefined
    skipTransition,          \* line 38
    finishTransition,        \* line 38: navigation whose finished promise the resolver settles
    nav,                     \* per navigation request: its position and event fields
    microtasks,              \* microtask queue: continuations waiting in the current task
    swapping,                \* navigations between their before-swap and after-swap dispatch
    gesture,                 \* per request: what started it and what the listener decided
    scrolls,                 \* number of scroll gestures of the user so far
    prefetchedPages,         \* line 62
    prefetchLog,             \* the calls of prefetchPage so far and whether each issued a request
    executed,                \* per parsed document (0: the initial one): script executions by executeScripts
    links,                   \* observeNewLinks: document.readyState, hasRun of line 232, the scans so far and what caused each
    bodySwap,                \* the last body swap: the two bodies, the focus and what came out
    unloaded                 \* the document is being replaced by a full page load

vars == <<supportsViewTransitions, fallbackMeta, dom, history, hpos, scroll,
          navigationIndex, currentLocation, viewTransition, skipTransition,
          finishTransition, nav, microtasks, swapping, gesture, scrolls,
          prefetchedPages, prefetchLog, bodySwap, executed, links, unloaded>>

\* ------------------------------------------------------- derived browser state
location == history[hpos].url
historyState == history[hpos].st

\* line 35
isViewTransitionsEnabled == dom.head.marker

\* lines 637-640
getFallbackAnimation == fallbackMeta

\* line 672: the condition under which currentLocation, popstate and scroll
\* tracking are set up
engineInitialized == supportsViewTransitions \/ getFallbackAnimation # "none"

updateHistoryState_Unguarded(h, pos, sx, sy) ==
    IF h[pos].st # Null
    THEN [h EXCEPT ![pos].st = [@ EXCEPT !.scrollX = sx, !.scrollY = sy]]
    ELSE [h EXCEPT ![pos].st = State(0, sx, sy)]

\* lines 45-50
updateHistoryState(h, pos, sx, sy) ==
    IF h[pos].st # Null
    THEN [h EXCEPT ![pos].st = [@ EXCEPT !.scrollX = sx, !.scrollY = sy]]
    ELSE h

\* where the browser scrolls to for a fragment (the target element's position)
FragmentTop(hash) == IF hash = "" THEN 0 ELSE MaxScroll

\* history.pushState: entries after the current one are dropped
pushState(h, pos, st, url) == SubSeq(h, 1, pos) \o <<Entry(url, st)>>

\* `location.href = url` as the browser carries it out: a URL that differs from
\* the current one at most in a non-empty fragment is a same-document fragment
\* navigation (a new entry with null state, or the current entry with its state
\* reset when the URL is identical); anything else loads a new document.
AssignHref(h, pos, sc, url) ==
    LET fragment == /\ url.origin = h[pos].url.origin
                    /\ url.path = h[pos].url.path
                    /\ url.hash # ""
    IN  IF ~fragment
        THEN [history |-> h, hpos |-> pos, scroll |-> sc, unloaded |-> TRUE]
        ELSE IF url = h[pos].url
        THEN [history |-> [h EXCEPT ![pos].st = Null], hpos |-> pos,
              scroll |-> [x |-> 0, y |-> FragmentTop(url.hash)], unloaded |-> FALSE]
        ELSE [history |-> pushState(h, pos, Null, url), hpos |-> pos + 1,
              scroll |-> [x |-> 0, y |-> FragmentTop(url.hash)], unloaded |-> FALSE]

\* lines 538-589.  historyMode is options.history, scrollState the fifth
\* argument (Null when absent).  The result carries threw = TRUE when
\* `state.index` is read from a null history.state (line 550).
updateLocation(h, pos, idx, sc, to, from, historyMode, scrollState) ==
    LET isSameUrl == from.path = to.path
        write == to # h[pos].url /\ scrollState = Null
        replace == write /\ historyMode = "replace"
        push == write /\ historyMode # "replace"
        h1 == IF replace
              THEN [h EXCEPT ![pos] = Entry(to, State(h[pos].st.index, h[pos].st.scrollX, h[pos].st.scrollY))]
              ELSE IF push THEN pushState(h, pos, State(idx + 1, 0, 0), to)
              ELSE h
        pos1 == IF push THEN pos + 1 ELSE pos
        idx1 == IF push THEN idx + 1 ELSE idx
        sc1 == IF isSameUrl THEN sc
               ELSE IF scrollState # Null THEN [x |-> scrollState.scrollX, y |-> scrollState.scrollY]
               ELSE IF to.hash # "" THEN [x |-> 0, y |-> FragmentTop(to.hash)]
               ELSE [x |-> 0, y |-> 0]
    IN  IF replace /\ h[pos].st = Null
        THEN [threw |-> TRUE, history |-> h, hpos |-> pos, navigationIndex |-> idx,
              currentLocation |-> from, scroll |-> sc]
        ELSE [threw |-> FALSE, history |-> h1, hpos |-> pos1, navigationIndex |-> idx1,
              currentLocation |-> to, scroll |-> sc1]

\* ------------------------------------------------------- navigation requests
IdleNav == [pc |-> "idle", direction |-> "", from |-> Undef, to |-> Undef,
            navigationType |-> "", historyMode |-> "", formData |-> FALSE,
            scrollState |-> Null, prevented |-> FALSE, newDocument |-> Null,
            evTo |-> Undef, swapTo |-> Undef, enabledAtStart |-> FALSE, cancelled |-> FALSE,
            fallback |-> "", ready |-> "none", finished |-> "none",
            skipped |-> FALSE, skipRequested |-> FALSE, response |-> Null,
            result |-> "", log |-> <<>>]

\* what a listener was given (kind, href, sameOrigin, modifier, bypass) and what
\* it did (intercepted: it called preventDefault; navigateCalled)
NoGesture == [kind |-> "none", sameOrigin |-> FALSE, modifier |-> FALSE, bypass |-> "none",
              intercepted |-> FALSE, navigateCalled |-> FALSE, href |-> Undef]

\* ----------------------------------------------------------------- Init
\* The session history the module finds when it is loaded: a fresh entry with
\* no state, or entries left by an earlier load of the document (history.state
\* persists across reloads).
InitialHistories ==
    { [h |-> <<Entry(URL("self", "/a", ""), Null)>>, pos |-> 1] }
    \cup
    { [h |-> <<Entry(URL("self", "/a", "#x"), State(0, 0, 0)),
               Entry(URL("self", "/a", ""), State(1, 0, 0)),
               Entry(URL("self", "/b", ""), State(2, 0, 0))>>, pos |-> 2] }

Init ==
    /\ supportsViewTransitions \in BOOLEAN
    \* the meta element is absent ("animate", line 639) or names another mode;
    \* with native transitions its content matters to nothing
    /\ fallbackMeta \in IF supportsViewTransitions THEN {"animate"}
                        ELSE {"animate", "swap", "none"}
    /\ scroll = [x |-> 0, y |-> 0]
    /\ \E ih \in InitialHistories, m \in BOOLEAN :
          /\ hpos = ih.pos
          /\ dom = LET d == Doc(ih.h[ih.pos].url.path, m)
                   IN  [root |-> d, head |-> d, body |-> d,
                        transition |-> "", transitionFallback |-> "",
                        \* lines 711-714: the scripts of the document are
                        \* those of the initial load, data-mkdocs-exec set
                        \* on them inside the condition of line 671
                        scripts |-> [document |-> 0,
                                     exec |-> supportsViewTransitions \/ fallbackMeta # "none"]]
          \* lines 53-59
          /\ IF ih.h[ih.pos].st # Null
             THEN /\ navigationIndex = ih.h[ih.pos].st.index
                  /\ history = ih.h
             ELSE /\ navigationIndex = 0
                  /\ history = IF dom.head.marker
                               THEN [ih.h EXCEPT ![ih.pos].st = State(0, scroll.x, scroll.y)]
                               ELSE ih.h
    \* lines 672-673
    /\ currentLocation = IF supportsViewTransitions \/ fallbackMeta # "none"
                         THEN history[hpos].url ELSE Undef
    /\ viewTransition = 0
    /\ skipTransition = FALSE
    /\ finishTransition = 0
    /\ nav = [n \in Navs |-> IdleNav]
    /\ microtasks = <<>>
    /\ swapping = {}
    /\ gesture = [n \in Navs |-> NoGesture]
    /\ scrolls = 0
    /\ prefetchedPages = {}
    /\ prefetchLog = <<>>
    /\ bodySwap = Null
    /\ executed = [d \in 0..MaxNavs |-> 0]
    \* lines 797 and 230-232: the script runs while the document is loading,
    \* each strategy has scanned the links once
    /\ links = [readyState |-> "loading", hasRun |-> FALSE, scans |-> <<Cause("setup", 0)>>]
    /\ unloaded = FALSE

\* ------------------------------------------------------------ navigateToPage
canIntercept_AnyOrigin(pos, toUrl) == isViewTransitionsEnabled

\* line 244: the condition under which navigateToPage goes on instead of
\* assigning location.href at once
canIntercept(pos, toUrl) ==
    isViewTransitionsEnabled /\ history[pos].url.origin = toUrl.origin

navigationTypeOf_NeverTraverse(scrollState, historyMode) ==
    IF historyMode = "replace" THEN "replace" ELSE "push"

\* lines 249-250
navigationTypeOf(scrollState, historyMode) ==
    IF scrollState # Null THEN "traverse"
    ELSE IF historyMode = "replace" THEN "replace" ELSE "push"

\* lines 257-258: the same-page hash shortcut
isHashNavigation(direction, fromUrl, toUrl) ==
    /\ fromUrl.path = toUrl.path
    /\ \/ direction # "back" /\ toUrl.hash # ""
       \/ direction = "back" /\ fromUrl.hash # ""

loaderInvoked_Always(cancel) == TRUE

\* line 338: the loader runs only if no listener cancelled before-preparation
loaderInvoked(cancel) == ~cancel

\* whether updateHistoryState writes (history.state is not null)
StateWrites(h, pos) == IF h[pos].st # Null THEN <<"scroll-state">> ELSE <<>>

\* what updateLocation calls on history (lines 545-562)
LocationWrites(h, pos, to, historyMode, scrollState) ==
    IF to # h[pos].url /\ scrollState = Null
    THEN IF historyMode = "replace" THEN <<"replaceState">> ELSE <<"pushState">>
    ELSE <<>>

\* lines 243-269 up to the first wait (the fetch issued by the loader), with
\* lines 305-312 and 338 of dispatchBeforePreparation.  pos and idx are the
\* history position and navigationIndex at the time of the call, g what the
\* calling listener recorded.  A before-preparation listener may cancel.
navigateToPage(n, direction, fromUrl, toUrl, historyMode, formData, scrollState, pos, idx, g) ==
    LET navigationType == navigationTypeOf(scrollState, historyMode)
        base == [IdleNav EXCEPT !.direction = direction, !.from = fromUrl, !.to = toUrl,
                                !.evTo = toUrl, !.navigationType = navigationType,
                                !.historyMode = historyMode, !.formData = formData,
                                !.scrollState = scrollState,
                                !.enabledAtStart = isViewTransitionsEnabled]
        h1 == IF navigationType # "traverse"
              THEN updateHistoryState(history, pos, scroll.x, scroll.y) ELSE history
        w1 == IF navigationType # "traverse" THEN StateWrites(history, pos) ELSE <<>>
        hard(h, lg, c) ==
            LET r == AssignHref(h, pos, scroll, toUrl)
            IN  /\ nav' = [nav EXCEPT ![n] = [base EXCEPT !.pc = "hard", !.cancelled = c,
                                                          !.log = lg \o <<"hard">>]]
                /\ history' = r.history
                /\ hpos' = r.hpos
                /\ scroll' = r.scroll
                /\ unloaded' = r.unloaded
                /\ navigationIndex' = idx
                /\ currentLocation' = currentLocation
    IN  /\ gesture' = [gesture EXCEPT ![n] = g]
        /\ UNCHANGED <<supportsViewTransitions, fallbackMeta, dom, viewTransition,
                       skipTransition, finishTransition, microtasks, swapping, scrolls, bodySwap, executed, links, prefetchedPages,
                   prefetchLog>>
        /\ IF ~canIntercept(pos, toUrl)
           THEN hard(history, <<>>, FALSE)
           ELSE IF fromUrl = Undef
           THEN \* TypeError reading fromUrl.pathname (line 257)
                /\ nav' = [nav EXCEPT ![n] = [base EXCEPT !.pc = "threw", !.log = w1]]
                /\ history' = h1
                /\ hpos' = pos
                /\ navigationIndex' = idx
                /\ UNCHANGED <<scroll, unloaded, currentLocation>>
           ELSE IF isHashNavigation(direction, fromUrl, toUrl)
           THEN LET r == updateLocation(h1, pos, idx, scroll, toUrl, fromUrl, historyMode, scrollState)
                    w2 == LocationWrites(h1, pos, toUrl, historyMode, scrollState)
                IN  /\ nav' = [nav EXCEPT ![n] = [base EXCEPT
                                 !.pc = IF r.threw THEN "threw" ELSE "hash",
                                 !.log = w1 \o w2 \o <<"commit">>]]
                    /\ history' = r.history
                    /\ hpos' = r.hpos
                    /\ navigationIndex' = r.navigationIndex
                    /\ currentLocation' = r.currentLocation
                    /\ scroll' = r.scroll
                    /\ UNCHANGED unloaded
           ELSE \E cancel \in BOOLEAN :
                IF ~loaderInvoked(cancel)
                THEN hard(h1, w1 \o <<"before-preparation">>, cancel)
                ELSE /\ nav' = [nav EXCEPT ![n] = [base EXCEPT !.pc = "fetching",
                                  !.cancelled = cancel,
                                  !.log = w1 \o <<"before-preparation", "fetch">>]]
                     /\ history' = h1
                     /\ hpos' = pos
                     /\ navigationIndex' = idx
                     /\ UNCHANGED <<scroll, unloaded, currentLocation>>

\* --------------------------------------------------------- what starts a request
\* requests are numbered in the order they are made
NextRequest(n) ==
    /\ ~unloaded
    /\ microtasks = <<>>
    /\ nav[n].pc = "idle"
    /\ \A m \in Navs : m < n => nav[m].pc # "idle"

Modifiers == {"none", "ctrl", "meta", "shift", "alt"}
\* the other reasons for which the click listener returns early (lines 740-747):
\* data-mkdocs-reload, download, a target other than _self, a button other
\* than the primary one, a default action prevented by an earlier listener
\* (that of line 805 for instance)
ClickBypasses == {"none", "reload", "download", "target", "button", "prevented"}
\* lines 762-764 and 775 of the submit listener
SubmitBypasses == {"none", "reload", "prevented", "dialog"}

clickIntercepts_IgnoresModifier(href, modifier, bypass) ==
    /\ bypass = "none"
    /\ href.origin = location.origin

clickIntercepts_OtherOrigin(href, modifier, bypass) ==
    /\ bypass = "none"
    /\ href.origin # location.origin
    /\ modifier = "none"

\* lines 740-749: TRUE when the click listener goes on to preventDefault
clickIntercepts(href, modifier, bypass) ==
    /\ bypass = "none"
    /\ href.origin = location.origin
    /\ modifier = "none"

\* the browser's own handling of an activation the listeners left alone: a
\* plain activation follows the link, a modified one leaves this page as it is
BrowserDefault(n, g, follows, url) ==
    LET r == IF follows THEN AssignHref(history, hpos, scroll, url)
             ELSE [history |-> history, hpos |-> hpos, scroll |-> scroll, unloaded |-> FALSE]
    IN  /\ nav' = [nav EXCEPT ![n].pc = "default"]
        /\ gesture' = [gesture EXCEPT ![n] = g]
        /\ history' = r.history
        /\ hpos' = r.hpos
        /\ scroll' = r.scroll
        /\ unloaded' = r.unloaded
        /\ UNCHANGED <<supportsViewTransitions, fallbackMeta, dom, navigationIndex,
                       currentLocation, viewTransition, skipTransition, finishTransition,
                       microtasks, swapping, scrolls, bodySwap, executed, links, prefetchedPages,
                   prefetchLog>>

\* lines 643-645
navigate(n, url, historyMode, formData, g) ==
    navigateToPage(n, "forward", currentLocation, url, historyMode, formData, Null,
                   hpos, navigationIndex, g)

\* lines 718-756: the click listener on an anchor with the given href
Click(n, href, modifier, bypass, historyAttr) ==
    /\ NextRequest(n)
    /\ LET g == [NoGesture EXCEPT !.kind = "click", !.href = href,
                                   !.sameOrigin = (href.origin = location.origin),
                                   !.modifier = (modifier # "none"),
                                   !.bypass = bypass]
       IN  IF clickIntercepts(href, modifier, bypass)
           THEN navigate(n, href, historyAttr, FALSE,
                         [g EXCEPT !.intercepted = TRUE, !.navigateCalled = TRUE])
           ELSE BrowserDefault(n, g, modifier = "none" /\ bypass \in {"none", "reload"}, href)

\* lines 775: TRUE when the submit listener goes on to preventDefault
submitIntercepts(action, bypass) ==
    /\ bypass = "none"
    /\ location.origin = action.origin

\* lines 759-794: the submit listener; action is the URL the form submits to
\* (with the query built from the form data when the method is get)
Submit(n, action, method, bypass) ==
    /\ NextRequest(n)
    /\ LET g == [NoGesture EXCEPT !.kind = "submit", !.href = action,
                                   !.sameOrigin = (action.origin = location.origin),
                                   !.bypass = bypass]
       IN  IF submitIntercepts(action, bypass)
           THEN navigate(n, action, "auto", method # "get",
                         [g EXCEPT !.intercepted = TRUE, !.navigateCalled = TRUE])
           ELSE BrowserDefault(n, g, bypass \in {"none", "reload"}, action)

\* window.penguinTheme.navigate called by another script (lines 1155-1156)
Navigate(n, url, historyMode) ==
    /\ NextRequest(n)
    /\ navigate(n, url, historyMode, FALSE,
                [NoGesture EXCEPT !.kind = "navigate", !.href = url, !.navigateCalled = TRUE])

directionOf_Reversed(index, idx) == IF index < idx THEN "forward" ELSE "back"

\* lines 658: the direction of a traversal
directionOf(index, idx) == IF index > idx THEN "forward" ELSE "back"

\* The user goes back or forward to entry target of this document's history:
\* the browser makes it the current entry and fires popstate.  Lines 648-662
\* when the listener is registered (line 674).
PopState(n, target) ==
    /\ NextRequest(n)
    /\ target \in 1..Len(history)
    /\ target # hpos
    /\ LET state == history[target].st
           g == [NoGesture EXCEPT !.kind = "popstate"]
       IN  IF ~engineInitialized \/ state = Null \/ ~isViewTransitionsEnabled
           THEN /\ hpos' = target
                /\ nav' = [nav EXCEPT ![n].pc = "returned"]
                /\ gesture' = [gesture EXCEPT ![n] = g]
                \* lines 649-652: location.reload()
                /\ unloaded' = (engineInitialized /\ ~isViewTransitionsEnabled /\ state # Null)
                /\ UNCHANGED <<supportsViewTransitions, fallbackMeta, dom, history, scroll,
                               navigationIndex, currentLocation, viewTransition,
                               skipTransition, finishTransition, microtasks, swapping, scrolls, bodySwap, executed, links, prefetchedPages,
                   prefetchLog>>
           ELSE navigateToPage(n, directionOf(state.index, navigationIndex), currentLocation,
                               history[target].url, "", FALSE, state, target, state.index, g)

\* ------------------------------------------------- the mutable state as a value
\* The steps below are written as functions from state to state so that a task
\* can run several of them in a row.
Cur == [dom |-> dom, history |-> history, hpos |-> hpos, scroll |-> scroll,
        navigationIndex |-> navigationIndex, currentLocation |-> currentLocation,
        viewTransition |-> viewTransition, skipTransition |-> skipTransition,
        finishTransition |-> finishTransition, nav |-> nav, microtasks |-> microtasks,
        swapping |-> swapping, executed |-> executed, links |-> links,
        unloaded |-> unloaded]

Becomes(s) ==
    /\ dom' = s.dom
    /\ history' = s.history
    /\ hpos' = s.hpos
    /\ scroll' = s.scroll
    /\ navigationIndex' = s.navigationIndex
    /\ currentLocation' = s.currentLocation
    /\ viewTransition' = s.viewTransition
    /\ skipTransition' = s.skipTransition
    /\ finishTransition' = s.finishTransition
    /\ nav' = s.nav
    /\ microtasks' = s.microtasks
    /\ swapping' = s.swapping
    /\ executed' = s.executed
    /\ links' = s.links
    /\ unloaded' = s.unloaded
    /\ UNCHANGED <<supportsViewTransitions, fallbackMeta, gesture, scrolls, bodySwap, prefetchedPages,
                   prefetchLog>>

InLog(lg, e) == \E i \in 1..Len(lg) : lg[i] = e

Logged(s, n, entries) == [s EXCEPT !.nav[n].log = @ \o entries]

\* `location.href = toUrl.href` of lines 245 and 267: toUrl is the argument of
\* navigateToPage, not the event's (possibly redirected) to
hardNavigation(s, n) ==
    LET r == AssignHref(s.history, s.hpos, s.scroll, s.nav[n].to)
    IN  [Logged(s, n, <<"hard">>) EXCEPT !.history = r.history, !.hpos = r.hpos,
                                        !.scroll = r.scroll, !.unloaded = r.unloaded,
                                        !.nav[n].pc = "hard"]

\* ------------------------------------------------------------------ fetchPage
\* A response as the server and network produce it.  contentType is the
\* content-type header split at ";" (<<>> when the header is absent).
Headers == { <<>>, <<"text/html">>, <<"text/html", "charset=utf-8">>,
             <<"application/xhtml+xml">>, <<"application/json">> }
HtmlHeaders == { <<"text/html">>, <<"text/html", "charset=utf-8">>, <<"application/xhtml+xml">> }
NoBody(failed, header) == [failed |-> failed, contentType |-> header, redirected |-> FALSE,
                           marker |-> FALSE, stylesheets |-> FALSE]
Responses ==
    { NoBody(TRUE, <<>>) }
    \cup { NoBody(FALSE, h) : h \in Headers \ HtmlHeaders }
    \cup [failed : {FALSE}, contentType : HtmlHeaders, redirected : BOOLEAN,
          marker : BOOLEAN, stylesheets : BOOLEAN]
\* the responses the specifications draw from
SomeResponses ==
    { r \in Responses : r.contentType \in HtmlHeaders =>
          \/ r.contentType = <<"text/html", "charset=utf-8">>
          \/ r.contentType = <<"application/xhtml+xml">> /\ r.marker /\ ~r.redirected /\ ~r.stylesheets }

\* where the server redirects a request for url
RedirectTarget(url) == URL(url.origin, IF url.path = "/a" THEN "/b" ELSE "/a", "")

fetchPage_AnyContentType(url, resp) ==
    IF resp.failed THEN Null
    ELSE [redirected |-> IF resp.redirected THEN RedirectTarget(url) ELSE Undef,
          mediaType |-> IF resp.contentType = <<>> THEN "" ELSE Head(resp.contentType)]

fetchPage_IgnoresRedirect(url, resp) ==
    IF resp.failed THEN Null
    ELSE LET contentType == IF resp.contentType = <<>> THEN "" ELSE Head(resp.contentType)
         IN  IF contentType # "text/html" /\ contentType # "application/xhtml+xml"
             THEN Null
             ELSE [redirected |-> Undef, mediaType |-> contentType]

\* lines 351-374: Null, or what the loader reads from the result
fetchPage(url, resp) ==
    IF resp.failed THEN Null
    ELSE LET contentType == IF resp.contentType = <<>> THEN "" ELSE Head(resp.contentType)
         IN  IF contentType # "text/html" /\ contentType # "application/xhtml+xml"
             THEN Null
             ELSE [redirected |-> IF resp.redirected THEN RedirectTarget(url) ELSE Undef,
                   mediaType |-> contentType]

loaderRejects_MarkerOrForm(newDocument, formData) == ~newDocument.marker /\ formData

\* line 327: TRUE when the loader cancels because the destination has not opted in
loaderRejects(newDocument, formData) == ~newDocument.marker /\ ~formData

\* ------------------------------------------------------- the transition handle
\* a navigation whose performPageSwap throws: asyncSwap (lines 278-281) or the
\* update callback (lines 274-276) rejects, and with it ready and
\* `await viewTransition.ready`; the browser also rejects finished of a native
\* transition
rejected(v) ==
    [v EXCEPT !.pc = "threw",
              !.ready = IF @ = "pending" THEN "rejected" ELSE @,
              !.finished = IF supportsViewTransitions /\ @ = "pending" THEN "rejected" ELSE @,
              !.result = IF @ = "" THEN "rejected" ELSE @]

\* data-mkdocs-transition-fallback set to value ("" when removed).  The
\* animations that line 533 waits for are those a value of the attribute
\* started; the browser cancels them when the value changes, and their
\* finished promises reject: the `await` of line 399 throws, the chain of line
\* 412 never calls finishTransition.
setFallbackAttribute(s, value) ==
    IF s.dom.transitionFallback = value THEN s
    ELSE [s EXCEPT !.dom.transitionFallback = value,
                   !.nav = [m \in Navs |->
                               IF s.nav[m].pc = "animOld" THEN rejected(s.nav[m])
                               ELSE IF s.nav[m].pc = "animNew"
                               THEN [s.nav[m] EXCEPT !.pc = "swapped"]
                               ELSE s.nav[m]]]

\* lines 297-300: the reaction to the finished promise of handle h being fulfilled
resolveFinished(s, h) ==
    IF h = 0 \/ s.nav[h].finished # "pending" THEN s
    ELSE setFallbackAttribute([s EXCEPT !.nav[h].finished = "fulfilled",
                                        !.dom.transition = ""], "")

\* ViewTransition.skipTransition() of the browser on handle h: ready rejects
\* unless it has settled (and with it `await viewTransition.ready`, line 302),
\* the update callback still runs, a running animation ends
nativeSkip(s, h) ==
    IF h = 0 \/ s.nav[h].finished # "pending" THEN s
    ELSE LET s1 == [s EXCEPT !.nav[h].skipped = TRUE,
                             !.nav[h].ready = IF @ = "pending" THEN "rejected" ELSE @,
                             !.nav[h].result = IF s.nav[h].ready = "pending" /\ @ = ""
                                               THEN "rejected" ELSE @]
         IN  IF s.nav[h].pc = "animating"
             THEN resolveFinished([s1 EXCEPT !.nav[h].pc = "done"], h) ELSE s1

\* skipTransition() called on handle h: the browser's when the transition is
\* native, line 287 when it is emulated
skipCall(s, h) ==
    IF h = 0 THEN s
    ELSE LET s1 == [s EXCEPT !.nav[h].skipRequested = @ \/ ~InLog(s.nav[h].log, "swap")]
         IN  IF supportsViewTransitions THEN nativeSkip(s1, h)
             ELSE [s1 EXCEPT !.skipTransition = TRUE]

\* performPageSwap of navigation n throws
rejectSwap(s, n) == [s EXCEPT !.nav[n] = rejected(@), !.swapping = @ \ {n}]

\* lines 340-345 and 271-302: after the loader has returned without cancelling
prepared(s, n) ==
    LET v == s.nav[n]
        s1 == Logged(s, n, <<"after-preparation">>)
        s2 == IF v.navigationType # "traverse"
              THEN [Logged(s1, n, StateWrites(s1.history, s1.hpos)) EXCEPT
                      !.history = updateHistoryState(s1.history, s1.hpos, s1.scroll.x, s1.scroll.y)]
              ELSE s1
        s3 == [s2 EXCEPT !.skipTransition = FALSE]
    IN  IF supportsViewTransitions
        THEN \* document.startViewTransition skips the transition still active
             [nativeSkip(s3, s3.viewTransition) EXCEPT
                 !.viewTransition = n, !.nav[n].ready = "pending",
                 !.nav[n].finished = "pending", !.nav[n].pc = "capture"]
        ELSE [s3 EXCEPT !.viewTransition = n, !.finishTransition = n,
                        !.nav[n].ready = "pending", !.nav[n].finished = "pending",
                        !.nav[n].pc = "tick"]

\* lines 340 and 266: a prevented event ends in the assignment of line 267
afterLoader(s, n) ==
    IF s.nav[n].cancelled \/ s.nav[n].prevented THEN hardNavigation(s, n) ELSE prepared(s, n)

\* ---------------------------------------------------------------- swapDocument
\* lines 437-478 called with argument ev: reading ev.newDocument of an
\* undefined ev throws before anything is touched; otherwise root attributes,
\* head and body become those of ev.newDocument, the data-mkdocs-* attributes
\* of the root being kept (lines 442-449).  The scripts of the document are
\* then the ones parsed with ev.newDocument, none of them run and none
\* carrying data-mkdocs-exec.
swapDocument(ev, d) ==
    IF ev = Undef
    THEN [threw |-> TRUE, dom |-> d]
    ELSE [threw |-> FALSE,
          dom |-> [d EXCEPT !.root = ev.newDocument, !.head = ev.newDocument,
                            !.body = ev.newDocument,
                            !.scripts = [document |-> ev.parsed, exec |-> FALSE]]]

\* lines 430 and 433: event.swap is swapFn.bind(event), which binds `this`, and
\* is called as event.swap(): swapDocument's parameter receives no argument
boundSwapArgument(ev) == Undef

\* What a before-swap listener does: nothing, call skipTransition() on
\* event.viewTransition, call event.swap() itself, or replace event.swap by a
\* function that passes the event to the swap
Listeners == {"none", "skip", "swapEarly", "override"}

\* lines 405-406 with dispatchBeforeSwap (lines 416-435), up to the `await`.
\* The log records every call of event.swap ("swap-call"), by a listener or by
\* line 433, a listener's replacement of it ("override") and every swap of the
\* document that was carried out ("swap").  An exception thrown inside a
\* listener does not leave dispatchEvent.
swapPhase(s, n, listener) ==
    LET ev == [newDocument |-> s.nav[n].newDocument, parsed |-> n]
        \* lines 417-426: the before-swap event takes over from, to and the rest
        s1 == [Logged(s, n, <<"before-swap">>) EXCEPT !.swapping = @ \cup {n},
                                                      !.nav[n].swapTo = s.nav[n].evTo]
        early == swapDocument(boundSwapArgument(ev), s1.dom)
        s2 == IF listener = "skip" THEN skipCall(s1, s1.viewTransition)
              ELSE IF listener = "swapEarly"
              THEN IF early.threw THEN Logged(s1, n, <<"swap-call">>)
                   ELSE [Logged(s1, n, <<"swap-call", "swap">>) EXCEPT !.dom = early.dom]
              ELSE IF listener = "override" THEN Logged(s1, n, <<"override">>)
              ELSE s1
        s3 == Logged(s2, n, <<"swap-call">>)
        r == swapDocument(IF listener = "override" THEN ev ELSE boundSwapArgument(ev), s3.dom)
    IN  IF r.threw THEN rejectSwap(s3, n)
        ELSE [Logged(s3, n, <<"swap">>) EXCEPT !.dom = r.dom, !.nav[n].pc = "hop",
                                              !.microtasks = Append(@, n)]

startsAnimations_NoFilter(before, entry, phase) == TRUE

\* lines 527-533: whether animateTransition(phase) finds animations to wait
\* for.  The snapshot of line 527 is taken after line 397 has set
\* data-mkdocs-transition, so only a change of the fallback attribute counts.
startsAnimations(before, entry, phase) == entry.transitionFallback # phase

\* lines 396-403, then the swap unless the "old" animations have to be awaited
performPageSwap(s, n, fallback, listener) ==
    IF s.skipTransition THEN rejectSwap(s, n)
    ELSE LET s1 == [s EXCEPT !.dom.transition = s.nav[n].direction,
                             !.nav[n].fallback = fallback]
             s2 == setFallbackAttribute(s1, "old")
         IN  IF fallback # "animate" THEN swapPhase(s1, n, listener)
             ELSE IF startsAnimations(s.dom, s1.dom, "old")
             THEN [s2 EXCEPT !.nav[n].pc = "animOld"]
             ELSE swapPhase(s2, n, listener)

\* lines 591-618: every script of the live document without data-mkdocs-exec is
\* replaced by a copy, which runs and carries the attribute
executeScripts(s) ==
    IF s.dom.scripts.exec THEN s
    ELSE [s EXCEPT !.executed[s.dom.scripts.document] = @ + 1,
                   !.dom.scripts.exec = TRUE]

\* lines 620-622 and the listener of lines 233-239 that each strategy has
\* registered: the first event is let pass, every later one scans the links
dispatchPageLoad(s, cause) ==
    IF ~s.links.hasRun THEN [s EXCEPT !.links.hasRun = TRUE]
    ELSE [s EXCEPT !.links.scans = Append(@, cause)]

\* lines 408-413 after the `await`, with the reactions to the promises that
\* settle when performPageSwap returns (lines 291-295 and 302)
commitPhase(s, n) ==
    LET v == s.nav[n]
        r == updateLocation(s.history, s.hpos, s.navigationIndex, s.scroll,
                            v.swapTo, v.from, v.historyMode, v.scrollState)
        w == LocationWrites(s.history, s.hpos, v.swapTo, v.historyMode, v.scrollState)
        s1 == [Logged(s, n, w \o <<"commit", "after-swap">>) EXCEPT
                 !.history = r.history, !.hpos = r.hpos,
                 !.navigationIndex = r.navigationIndex,
                 !.currentLocation = r.currentLocation, !.scroll = r.scroll,
                 !.swapping = @ \ {n}]
        s2 == IF v.fallback = "animate" /\ ~s.skipTransition
              THEN IF startsAnimations(s1.dom, s1.dom, "new")
                   THEN [setFallbackAttribute(s1, "new") EXCEPT !.nav[n].pc = "animNew"]
                   ELSE resolveFinished([s1 EXCEPT !.nav[n].pc = "done"], s1.finishTransition)
              ELSE IF ~supportsViewTransitions THEN [s1 EXCEPT !.nav[n].pc = "swapped"]
              ELSE IF v.skipped THEN resolveFinished([s1 EXCEPT !.nav[n].pc = "done"], n)
              ELSE [s1 EXCEPT !.nav[n].pc = "animating"]
    IN  IF r.threw THEN rejectSwap(s, n)
        ELSE IF s2.nav[n].ready = "pending"
        THEN [Logged(dispatchPageLoad(executeScripts(s2), Cause("navigation", n)), n, <<"scripts", "page-load">>) EXCEPT
                 !.nav[n].ready = "fulfilled", !.nav[n].result = "fulfilled"]
        ELSE s2

\* --------------------------------------------------------------------- tasks
Task == ~unloaded /\ microtasks = <<>>

\* The fetch of line 359 settles: the rest of the loader (lines 314-336), then
\* lines 340-348 and 266-302 unless stylesheets have to be preloaded
FetchDone(n, resp) ==
    /\ Task
    /\ nav[n].pc = "fetching"
    /\ LET v == nav[n]
           response == fetchPage(v.evTo, resp)
           s0 == [Cur EXCEPT !.nav[n].response = [failed |-> resp.failed,
                                                  contentType |-> resp.contentType,
                                                  redirected |-> resp.redirected]]
       IN  IF response = Null
           THEN Becomes(hardNavigation([s0 EXCEPT !.nav[n].prevented = TRUE], n))
           ELSE LET to == IF response.redirected # Undef THEN response.redirected ELSE v.evTo
                    newDocument == Doc(to.path, resp.marker)
                    s1 == [s0 EXCEPT !.nav[n].evTo = to, !.nav[n].newDocument = newDocument]
                IN  IF loaderRejects(newDocument, v.formData)
                    THEN Becomes(hardNavigation([s1 EXCEPT !.nav[n].prevented = TRUE], n))
                    ELSE IF resp.stylesheets
                    THEN Becomes([s1 EXCEPT !.nav[n].pc = "preload"])
                    ELSE Becomes(afterLoader(s1, n))

\* lines 332-335: the preloaded stylesheets have loaded or failed
PreloadDone(n) ==
    /\ Task
    /\ nav[n].pc = "preload"
    /\ Becomes(afterLoader(Cur, n))

\* the timer of line 279 fires: line 280
Tick(n, listener) ==
    /\ Task
    /\ nav[n].pc = "tick"
    /\ Becomes(performPageSwap(Cur, n, getFallbackAnimation, listener))

\* the browser calls the update callback of lines 274-276, those of skipped
\* transitions first
NativeUpdate(n, listener) ==
    /\ Task
    /\ nav[n].pc = "capture"
    /\ nav[n].skipped \/ \A m \in Navs : ~(nav[m].pc = "capture" /\ nav[m].skipped)
    /\ Becomes(performPageSwap(Cur, n, "", listener))

\* all orders in which the members of a set can be taken
Orders(S) == { q \in [1..Cardinality(S) -> S] : \A i, j \in 1..Cardinality(S) : q[i] = q[j] => i = j }

\* The "old" animations awaited at line 399 finish.  Those of several
\* navigations can finish in one frame: their continuations are then queued
\* together, in the order q.
AnimationFrame(q) ==
    /\ Task
    /\ Len(q) > 0
    /\ \A i \in 1..Len(q) : nav[q[i]].pc = "animOld"
    /\ Becomes([Cur EXCEPT !.microtasks = q,
                           !.nav = [m \in Navs |-> IF \E i \in 1..Len(q) : q[i] = m
                                                   THEN [nav[m] EXCEPT !.pc = "resume"]
                                                   ELSE nav[m]]])

\* the microtask at the head of the queue runs
Microtask(listener) ==
    /\ ~unloaded
    /\ microtasks # <<>>
    /\ LET n == Head(microtasks)
           s == [Cur EXCEPT !.microtasks = Tail(@)]
       IN  IF nav[n].pc = "resume"
           THEN Becomes(swapPhase(s, n, listener))
           ELSE /\ listener = "none"
                /\ Becomes(commitPhase(s, n))

\* line 412: the "new" animations of navigation n have finished
AnimNewDone(n) ==
    /\ Task
    /\ nav[n].pc = "animNew"
    /\ Becomes(resolveFinished([Cur EXCEPT !.nav[n].pc = "done"], finishTransition))

\* the browser ends the animation of a native transition
NativeFinish(n) ==
    /\ Task
    /\ nav[n].pc = "animating"
    /\ Becomes(resolveFinished([Cur EXCEPT !.nav[n].pc = "done"], n))

\* a script calls skipTransition() on a handle it was given by a before-swap
\* event (line 429)
SkipCall(h) ==
    /\ Task
    /\ InLog(nav[h].log, "before-swap")
    /\ nav[h].finished = "pending"
    /\ Becomes(skipCall(Cur, h))

\* the document has been parsed: the listener of lines 800-1024, which sets
\* up the page's widgets and ends with line 1023
DOMContentLoaded ==
    /\ Task
    /\ links.readyState = "loading"
    /\ Becomes([dispatchPageLoad(Cur, Cause("DOMContentLoaded", 0)) EXCEPT !.links.readyState = "interactive"])

\* the window's load event: the listener of line 675, registered under the
\* condition of line 672
WindowLoad ==
    /\ Task
    /\ links.readyState = "interactive"
    /\ Becomes([(IF engineInitialized THEN dispatchPageLoad(Cur, Cause("load", 0)) ELSE Cur)
                   EXCEPT !.links.readyState = "complete"])

\* the user scrolls the window
Scroll(x, y) ==
    /\ Task
    /\ scrolls < MaxScrolls
    /\ scroll # [x |-> x, y |-> y]
    /\ scroll' = [x |-> x, y |-> y]
    /\ scrolls' = scrolls + 1
    /\ UNCHANGED <<prefetchedPages, prefetchLog, bodySwap, executed, links>>
    /\ UNCHANGED <<supportsViewTransitions, fallbackMeta, dom, history, hpos,
                   navigationIndex, currentLocation, viewTransition, skipTransition,
                   finishTransition, nav, microtasks, swapping, gesture, unloaded>>

\* lines 665-669, the scrollend listener of lines 678-679
trackScrollPosition ==
    /\ Task
    /\ engineInitialized
    /\ historyState # Null
    /\ scroll.x # historyState.scrollX \/ scroll.y # historyState.scrollY
    /\ history' = updateHistoryState(history, hpos, scroll.x, scroll.y)
    /\ UNCHANGED <<supportsViewTransitions, fallbackMeta, dom, hpos, scroll,
                   navigationIndex, currentLocation, viewTransition, skipTransition,
                   finishTransition, nav, microtasks, swapping, gesture, scrolls, bodySwap, executed, links, prefetchedPages,
                   prefetchLog, unloaded>>

\* ------------------------------------------------------------------ prefetch
\* The argument of prefetchPage is a string: the href property of a link is the
\* serialized absolute URL, a script calling window.penguinTheme.prefetchPage
\* may also give a relative reference.
Href(u) == [spelling |-> "absolute", url |-> u]
Relative(u) == [spelling |-> "relative", url |-> u]
LinkHrefs == {Href(u) : u \in {URL("self", "/a", ""), URL("self", "/b", ""), OtherURL}}
PrefetchArguments == LinkHrefs \cup {Relative(URL("self", "/b", ""))}

\* new URL(url, location.href) of line 196
resolveURL(url, base) == [url.url EXCEPT !.origin = IF url.spelling = "relative"
                                                     THEN base.origin ELSE @]

canPrefetch_NoMemory(url, ignoreSlowConnection, onLine, slow, set) ==
    /\ onLine
    /\ ignoreSlowConnection \/ ~slow
    /\ LET targetUrl == resolveURL(url, location)
       IN  /\ location.origin = targetUrl.origin
           /\ location.path # targetUrl.path

\* lines 192-203; onLine is navigator.onLine and slow isSlowConnection() at the
\* time of the call, set the content of prefetchedPages
canPrefetch(url, ignoreSlowConnection, onLine, slow, set) ==
    /\ onLine
    /\ ignoreSlowConnection \/ ~slow
    /\ LET targetUrl == resolveURL(url, location)
       IN  /\ location.origin = targetUrl.origin
           /\ location.path # targetUrl.path
           /\ url \notin set

\* the options each caller passes: lines 86, 115, 153 and 167, and a script
\* that passes none (lines 174 and 179)
Strategies == {"tap", "hover", "viewport", "load"}
prefetchOptions(by) ==
    [with |-> IF by \in {"tap", "hover"} THEN "fetch" ELSE "link",
     ignoreSlowConnection |-> (by = "tap")]

\* lines 173-190 for each of urls in turn, from the content pf of
\* prefetchedPages and the calls lg made so far
RECURSIVE prefetchPage(_, _, _, _, _, _)
prefetchPage(urls, by, onLine, slow, pf, lg) ==
    IF urls = <<>>
    THEN [prefetchedPages |-> pf, prefetchLog |-> lg]
    ELSE LET url == Head(urls)
             options == prefetchOptions(by)
             ok == canPrefetch(url, options.ignoreSlowConnection, onLine, slow, pf)
         IN  prefetchPage(Tail(urls), by, onLine, slow,
                          IF ok THEN pf \cup {url} ELSE pf,
                          Append(lg, [url |-> url, with |-> options.with, by |-> by,
                                      issued |-> ok]))

Prefetches(urls, by, onLine, slow) ==
    /\ Task
    /\ Len(prefetchLog) + Len(urls) <= MaxPrefetch
    /\ LET r == prefetchPage(urls, by, onLine, slow, prefetchedPages, prefetchLog)
       IN  /\ prefetchedPages' = r.prefetchedPages
           /\ prefetchLog' = r.prefetchLog
    /\ UNCHANGED <<supportsViewTransitions, fallbackMeta, dom, history, hpos, scroll,
                   navigationIndex, currentLocation, viewTransition, skipTransition,
                   finishTransition, nav, microtasks, swapping, gesture, scrolls, bodySwap, executed, links, unloaded>>

\* lines 82-89: touchstart or mousedown on a link
TapPrefetch(href, onLine, slow) == Prefetches(<<href>>, "tap", onLine, slow)

\* lines 111-117: the timer set when a link is hovered or focused fires
HoverPrefetch(href, onLine, slow) == Prefetches(<<href>>, "hover", onLine, slow)

\* lines 145-154: the timer set when a link came into the viewport fires
ViewportPrefetch(href, onLine, slow) == Prefetches(<<href>>, "viewport", onLine, slow)

\* lines 163-170: the scan of the links of the document, in document order
LoadPrefetch(hrefs, onLine, slow) == Prefetches(hrefs, "load", onLine, slow)

\* line 1160: a script of the page calls window.penguinTheme.prefetchPage(url)
ScriptPrefetch(url, onLine, slow) == Prefetches(<<url>>, "script", onLine, slow)

\* ------------------------------------------------------------- body swap
\* The part of swapDocument that puts the new body in (lines 462-478), run
\* with the event as its argument.  A body is taken for its elements with
\* data-mkdocs-persist, in document order and none inside another: a sequence
\* of their identifiers.  An element is known by the body it was parsed in,
\* its place there and its identifier.
PersistIds == {"p", "q"}
Bodies == UNION {[1..k -> PersistIds] : k \in 0..MaxPersist}
Element(src, k, id) == [src |-> src, k |-> k, id |-> id]
ElementsOf(src, body) == [k \in 1..Len(body) |-> Element(src, k, body[k])]

\* document.querySelector(`[data-mkdocs-persist="${id}"]`) of line 471: the
\* place of the first match in the live body, 0 for null
querySelector(live, id) ==
    IF \E j \in 1..Len(live) : live[j].id = id
    THEN CHOOSE j \in 1..Len(live) :
             /\ live[j].id = id
             /\ \A i \in 1..(j - 1) : live[i].id # id
    ELSE 0

\* lines 469-475 from the k-th element of the old body on
RECURSIVE restorePreserved(_, _, _)
restorePreserved(oldBody, k, live) ==
    IF k > Len(oldBody) THEN live
    ELSE LET preserved == Element("outgoing", k, oldBody[k])
             newElement == querySelector(live, preserved.id)
         IN  restorePreserved(oldBody, k + 1,
                              IF newElement # 0 THEN [live EXCEPT ![newElement] = preserved]
                              ELSE live)

\* What has the focus before the swap: nothing inside an element with
\* data-mkdocs-persist (Null), or something inside the k-th such element: a
\* text field with a selection, an input of a type that has no selection
\* (checkbox, number, email) or another element.
ActiveKinds == {"text", "checkbox", "button"}
ActiveElements(oldBody) ==
    {Null} \cup [k : 1..Len(oldBody), kind : ActiveKinds]
Selection == [start |-> 1, end |-> 2]

\* lines 494-507; selectionStart and selectionEnd of an input whose type has
\* no selection are null
preserveActiveElement(oldBody, active) ==
    IF active = Null THEN [element |-> Null, kind |-> "", selection |-> Null]
    ELSE [element |-> Element("outgoing", active.k, oldBody[active.k]),
          kind |-> active.kind,
          selection |-> IF active.kind = "text" THEN Selection ELSE Null]

\* lines 509-517: focus() does nothing on an element that is not in the
\* document; assigning selectionStart of an input whose type has no selection
\* throws an InvalidStateError
restoreActiveElement(saved, live) ==
    IF saved.element = Null
    THEN [focused |-> Null, selection |-> Null, threw |-> FALSE]
    ELSE LET focused == IF \E j \in 1..Len(live) : live[j] = saved.element
                        THEN saved.element ELSE Null
         IN  IF saved.kind = "checkbox"
             THEN [focused |-> focused, selection |-> Null, threw |-> TRUE]
             ELSE [focused |-> focused,
                   selection |-> IF saved.kind = "text" THEN saved.selection ELSE Null,
                   threw |-> FALSE]

\* lines 462-478
swapBody(oldBody, newBody, active) ==
    LET saved == preserveActiveElement(oldBody, active)
        live == restorePreserved(oldBody, 1, ElementsOf("incoming", newBody))
        restored == restoreActiveElement(saved, live)
    IN  [oldBody |-> oldBody, newBody |-> newBody, active |-> active, live |-> live,
         focused |-> restored.focused, selection |-> restored.selection,
         threw |-> restored.threw]

\* a swap of the document with these two bodies and this focus
BodySwap(oldBody, newBody, active) ==
    /\ Task
    /\ bodySwap = Null
    /\ bodySwap' = swapBody(oldBody, newBody, active)
    /\ UNCHANGED <<supportsViewTransitions, fallbackMeta, dom, history, hpos, scroll,
                   navigationIndex, currentLocation, viewTransition, skipTransition,
                   finishTransition, nav, microtasks, swapping, gesture, scrolls,
                   prefetchedPages, prefetchLog, executed, links, unloaded>>

\* What arrives from outside in the specifications below: the activations,
\* the responses of the server (drawn from R), what the listeners of other
\* scripts do.
Steps(R) ==
    \/ \E n \in Navs, resp \in R : FetchDone(n, resp)
    \/ \E n \in Navs : PreloadDone(n)
    \/ \E n \in Navs, listener \in Listeners : Tick(n, listener)
    \/ \E n \in Navs, listener \in Listeners : NativeUpdate(n, listener)
    \/ \E S \in SUBSET Navs : \E q \in Orders(S) : AnimationFrame(q)
    \/ \E listener \in Listeners : Microtask(listener)
    \/ \E n \in Navs : AnimNewDone(n)
    \/ \E n \in Navs : NativeFinish(n)
    \/ \E h \in Navs : SkipCall(h)

Progress == Steps(SomeResponses)

\* Plain activations as request n: a click on a same-site link, a posted form,
\* navigate() called with a URL of another origin, back and forward.
Activation(n) ==
    \/ \E href \in SelfURLs, historyAttr \in {"auto", "replace"} :
          Click(n, href, "none", "none", historyAttr)
    \/ Submit(n, URL("self", "/b", ""), "post", "none")
    \/ Navigate(n, OtherURL, "auto")
    \/ \E target \in 1..Len(history) : PopState(n, target)

\* Every kind of click and submit as request n.
Gesture(n) ==
    \/ \E href \in URLs, modifier \in Modifiers, bypass \in ClickBypasses,
          historyAttr \in {"auto", "replace"} : Click(n, href, modifier, bypass, historyAttr)
    \/ \E action \in URLs, method \in {"get", "post"}, bypass \in SubmitBypasses :
          Submit(n, action, method, bypass)

\* Up to MaxNavs requests, each of which may be made while earlier ones are
\* still under way.
Next == (\E n \in Navs : Activation(n)) \/ Progress

Spec == Init /\ [][Next]_vars

\* Up to MaxNavs overlapping requests on a page that has opted in and was
\* loaded afresh: clicks on links to two pages, back and forward, and servers
\* that answer with a document that has opted in or not at all.
InitRace == Init /\ isViewTransitionsEnabled /\ Len(history) = 1

RaceResponses ==
    { r \in SomeResponses :
        \/ r.failed
        \/ r.contentType = <<"text/html", "charset=utf-8">> /\ r.marker /\ ~r.redirected }

NextRace ==
    \/ \E n \in Navs, href \in {URL("self", "/a", ""), URL("self", "/b", "")} :
          Click(n, href, "none", "none", "auto")
    \/ \E n \in Navs : \E target \in 1..Len(history) : PopState(n, target)
    \/ Steps(RaceResponses)

SpecRace == InitRace /\ [][NextRace]_vars

\* Up to MaxSolo requests.
NextSolo == (\E n \in 1..MaxSolo : Activation(n)) \/ Progress

SpecSolo == Init /\ [][NextSolo]_vars

\* The listeners alone, on every kind of activation.
NextGesture == \E n \in 1..MaxSolo : Gesture(n)

SpecGesture == Init /\ [][NextGesture]_vars

\* Requests on a page that has opted in, with the user scrolling in between:
\* clicks on a link to another page and on one to a fragment, back and forward.
InitScroll == Init /\ isViewTransitionsEnabled

NextScroll ==
    \/ \E n \in 1..MaxSolo, href \in {URL("self", "/a", "#x"), URL("self", "/b", "")} :
          Click(n, href, "none", "none", "auto")
    \/ \E n \in 1..MaxSolo : \E target \in 1..Len(history) : PopState(n, target)
    \/ Steps(RaceResponses)
    \/ \E y \in ScrollVals : Scroll(0, y)
    \/ trackScrollPosition

SpecScroll == InitScroll /\ [][NextScroll]_vars

\* Prefetches: the links of the page are touched, hovered, scrolled into view
\* and scanned while the user goes back and forward.
LinkSequences == {<<a>> : a \in LinkHrefs} \cup {<<a, b>> : a, b \in LinkHrefs}

NextPrefetch ==
    \/ \E n \in 1..MaxSolo : \E target \in 1..Len(history) : PopState(n, target)
    \/ \E href \in LinkHrefs, onLine, slow \in BOOLEAN : TapPrefetch(href, onLine, slow)
    \/ \E href \in LinkHrefs, onLine, slow \in BOOLEAN : HoverPrefetch(href, onLine, slow)
    \/ \E href \in LinkHrefs, onLine, slow \in BOOLEAN : ViewportPrefetch(href, onLine, slow)
    \/ \E hrefs \in LinkSequences, onLine, slow \in BOOLEAN : LoadPrefetch(hrefs, onLine, slow)
    \/ \E url \in PrefetchArguments, onLine, slow \in BOOLEAN : ScriptPrefetch(url, onLine, slow)

\* prefetching does not depend on how transitions are run
InitPrefetch == Init /\ isViewTransitionsEnabled /\ supportsViewTransitions

SpecPrefetch == InitPrefetch /\ [][NextPrefetch]_vars

\* The initial load of the page, and up to MaxSolo clicks on a link to the
\* other page at any time of it or after it.
NextLinks ==
    \/ DOMContentLoaded
    \/ WindowLoad
    \/ \E n \in 1..MaxSolo : Click(n, URL("self", "/b", ""), "none", "none", "auto")
    \/ Steps(RaceResponses)

SpecLinks == Init /\ [][NextLinks]_vars

\* Body swaps alone: every pair of bodies and every focus.
NextBodySwap ==
    \E oldBody, newBody \in Bodies : \E active \in ActiveElements(oldBody) :
        BodySwap(oldBody, newBody, active)

SpecBodySwap == InitPrefetch /\ [][NextBodySwap]_vars

\* ------------------------------------------------------------------ properties
\* what navigation n has gone through so far
Has(n, e) == InLog(nav[n].log, e)
Called(n) == nav[n].to # Undef
\* nothing of navigation n is left to run
Ended(n) == nav[n].pc \in {"hard", "threw", "hash", "swapped", "done"}
\* n holds a transition handle and has work left
InFlight(n) ==
    /\ nav[n].finished = "pending"
    /\ nav[n].pc \in {"tick", "capture", "animOld", "resume", "hop", "animNew", "animating"}
HistoryWritten(n) == Has(n, "pushState") \/ Has(n, "replaceState")

\* C1: navigateToPage called while the document lacks the opt-in marker, or for
\* a destination of another origin, assigns location.href at once and does
\* nothing else: no event, no fetch, no history write, no swap.
C1_HardAtEntry ==
    \A n \in Navs :
        (Called(n) /\ (~nav[n].enabledAtStart \/ nav[n].to.origin # location.origin))
            => /\ nav[n].pc = "hard"
               /\ nav[n].log = <<"hard">>
               /\ nav[n].newDocument = Null

C1_Witness ==
    \E n \in Navs : /\ Called(n)
                     /\ nav[n].enabledAtStart
                     /\ nav[n].to.origin # location.origin
                     /\ nav[n].log = <<"hard">>
                     /\ unloaded

\* C2: every activation whose default action a listener prevented ends as
\* exactly one of a committed soft navigation and a hard navigation.
C2_InterceptedEnds ==
    \A n \in Navs :
        (gesture[n].intercepted /\ Ended(n))
            => (Has(n, "commit") \/ Has(n, "hard")) /\ ~(Has(n, "commit") /\ Has(n, "hard"))

\* C3: when skipTransition() is called on a navigation's handle before its swap
\* has run, the navigation still swaps the document and commits the URL, and
\* navigateToPage does not reject.
C3_SkipStillCompletes ==
    \A n \in Navs :
        (nav[n].skipRequested /\ Ended(n))
            => Has(n, "swap") /\ Has(n, "commit") /\ nav[n].result # "rejected"

\* C4: while a navigation's handle exists and its finished promise has not
\* settled, no other navigation holds a handle of its own.
C4_OneInFlight == Cardinality({n \in Navs : InFlight(n)}) <= 1

\* C5: the swapping phases (from before-swap to after-swap) of two navigations
\* never overlap.
C5_SwapsDisjoint == Cardinality(swapping) <= 1

\* two navigations have gone through their swapping phases, the later one
\* while the earlier one's handle had not settled
C5_Witness ==
    /\ swapping = {}
    /\ \A n \in Navs : Has(n, "before-swap") /\ Has(n, "after-swap")
    /\ \E n \in Navs : nav[n].finished = "pending"

\* the response of navigation n's fetch is one for which the fetch failed or
\* whose content type is neither text/html nor application/xhtml+xml
NoDocument(n) ==
    /\ nav[n].response # Null
    /\ \/ nav[n].response.failed
       \/ nav[n].response.contentType = <<>>
       \/ Head(nav[n].response.contentType) \notin {"text/html", "application/xhtml+xml"}

C7_NotOptedInReloads ==
    \A n \in Navs :
        (nav[n].newDocument # Null /\ ~nav[n].newDocument.marker /\ ~nav[n].formData)
            => /\ nav[n].pc = "hard"
               /\ nav[n].prevented
               /\ Has(n, "hard")
               /\ ~Has(n, "after-preparation")
               /\ ~Has(n, "before-swap") /\ ~Has(n, "swap") /\ ~Has(n, "commit")
               /\ ~HistoryWritten(n)

C7_Witness ==
    \E n \in Navs : /\ nav[n].newDocument # Null
                     /\ ~nav[n].newDocument.marker
                     /\ ~nav[n].formData
                     /\ nav[n].pc = "hard"

\* C8: a request with form data whose fetched HTML document lacks the opt-in
\* marker is not cancelled by the loader and goes through the soft swap: the
\* document is swapped, the URL committed, and there is no hard navigation.
C8_FormDataSwaps ==
    \A n \in Navs :
        (nav[n].formData /\ nav[n].newDocument # Null /\ ~nav[n].newDocument.marker /\ Ended(n))
            => /\ ~nav[n].prevented
               /\ Has(n, "swap") /\ Has(n, "commit")
               /\ ~Has(n, "hard")

\* C9: when a listener cancels before-preparation the navigation ends in a hard
\* navigation: the loader is never invoked (no fetch), after-preparation is
\* not dispatched, nothing is swapped or committed.
C9_CancelledReloads ==
    \A n \in Navs :
        nav[n].cancelled
            => /\ nav[n].pc = "hard"
               /\ Has(n, "hard")
               /\ ~Has(n, "fetch")
               /\ nav[n].response = Null /\ nav[n].newDocument = Null
               /\ ~Has(n, "after-preparation")
               /\ ~Has(n, "before-swap") /\ ~Has(n, "swap") /\ ~Has(n, "commit")
               /\ ~HistoryWritten(n)

C9_Witness ==
    \E n \in Navs : nav[n].cancelled /\ Has(n, "before-preparation") /\ nav[n].pc = "hard"

\* C10 as stated: every click on an anchor with a same-origin href and no
\* modifier key is intercepted: default prevented, navigate called with the href.
C10_EveryPlainClick ==
    \A n \in Navs :
        (gesture[n].kind = "click" /\ gesture[n].sameOrigin /\ ~gesture[n].modifier)
            => /\ gesture[n].intercepted
               /\ gesture[n].navigateCalled
               /\ nav[n].to = gesture[n].href

\* C10 amended: every click with the primary button on an anchor with a
\* same-origin href, no modifier key, no data-mkdocs-reload, no download
\* attribute, no target other than _self, and whose default action no earlier
\* listener prevented, is intercepted: default prevented, navigate called with
\* the href.
C10_PlainClickIntercepted ==
    \A n \in Navs :
        (/\ gesture[n].kind = "click"
         /\ gesture[n].sameOrigin
         /\ ~gesture[n].modifier
         /\ gesture[n].bypass = "none")
            => /\ gesture[n].intercepted
               /\ gesture[n].navigateCalled
               /\ nav[n].to = gesture[n].href

C10_Witness ==
    \E n \in Navs : /\ gesture[n].kind = "click"
                     /\ gesture[n].sameOrigin
                     /\ ~gesture[n].modifier
                     /\ gesture[n].bypass = "none"
                     /\ gesture[n].intercepted
                     /\ nav[n].to = gesture[n].href

\* C11: a click whose href is of another origin, or that is made with ctrl,
\* meta, shift or alt held, is never intercepted: neither preventDefault nor
\* navigate is called.
C11_ForeignOrModifiedClickPasses ==
    \A n \in Navs :
        (gesture[n].kind = "click" /\ (~gesture[n].sameOrigin \/ gesture[n].modifier))
            => /\ ~gesture[n].intercepted
               /\ ~gesture[n].navigateCalled
               /\ ~Called(n)
               /\ nav[n].pc = "default"

C11_Witness ==
    \E n \in Navs :
        /\ gesture[n].kind = "click" /\ gesture[n].sameOrigin /\ gesture[n].modifier
        /\ gesture[n].bypass = "none" /\ nav[n].pc = "default"

\* from and to have the same path and query and differ in their fragment
FragmentOnly(n) ==
    /\ Called(n)
    /\ nav[n].from # Undef
    /\ nav[n].from.origin = nav[n].to.origin
    /\ nav[n].from.path = nav[n].to.path
    /\ nav[n].from.hash # nav[n].to.hash

\* C12: a navigation whose from and to URLs have the same path and query and
\* differ only in fragment issues no fetch and dispatches no before-preparation
\* event.
C12_FragmentOnlyNeverFetches ==
    \A n \in Navs :
        FragmentOnly(n) => ~Has(n, "fetch") /\ ~Has(n, "before-preparation")

\* a step in which handlePopState runs for request n past its two early returns
PopStateHandled(n) ==
    /\ gesture[n].kind = "none"
    /\ gesture'[n].kind = "popstate"
    /\ engineInitialized
    /\ isViewTransitionsEnabled
    /\ history[hpos'].st # Null

\* C13: on a popstate with non-null state while soft navigation is enabled, the
\* direction is forward exactly when the entry's index is greater than
\* navigationIndex as it was before the event and back otherwise; navigationIndex
\* becomes the entry's index and the navigation runs with navigationType
\* traverse.
C13_PopStateDirection ==
    [][\A n \in Navs :
          PopStateHandled(n) =>
              LET index == history[hpos'].st.index
              IN  /\ index > navigationIndex => nav'[n].direction = "forward"
                  /\ index <= navigationIndex => nav'[n].direction = "back"
                  /\ navigationIndex' = index
                  /\ nav'[n].navigationType = "traverse"]_vars

C13_Witness ==
    \E n \in Navs :
        /\ gesture[n].kind = "popstate"
        /\ nav[n].direction = "forward"
        /\ nav[n].navigationType = "traverse"
        /\ nav[n].scrollState # Null
        /\ navigationIndex = nav[n].scrollState.index
        /\ navigationIndex = 2

\* navigation n was started by handlePopState
Traversal(n) == gesture[n].kind = "popstate" /\ Called(n)
\* a step of navigation n that is not the assignment of location.href and does
\* not throw
SoftStep(n) ==
    /\ nav'[n] # nav[n]
    /\ nav'[n].pc \notin {"hard", "threw"}

\* C14: a traversal that runs as a soft navigation or hash shortcut never
\* writes to history: it calls neither pushState nor replaceState, no step of it
\* changes the entries (their number, URLs, indexes and scroll fields), and
\* after the popstate handler it moves no position in the history either.
C14_TraversalWritesNoHistory ==
    [][\A n \in Navs :
          (Traversal(n)' /\ SoftStep(n)) =>
              /\ history' = history
              /\ Traversal(n) => hpos' = hpos
              /\ ~HistoryWritten(n)'
              /\ ~Has(n, "scroll-state")']_vars

C14_Witness ==
    \E n \in Navs :
        /\ Traversal(n)
        /\ nav[n].navigationType = "traverse"
        /\ Has(n, "after-swap")
        /\ nav[n].pc = "done"
        /\ currentLocation = nav[n].evTo
        /\ navigationIndex = nav[n].scrollState.index

\* history g is history h with at most the scroll fields of entry pos changed
OnlyScrollChanged(h, pos, g) ==
    /\ Len(g) = Len(h)
    /\ \A i \in 1..Len(h) :
          /\ g[i].url = h[i].url
          /\ i # pos => g[i] = h[i]
    /\ h[pos].st = Null => g[pos].st = Null
    /\ h[pos].st # Null => g[pos].st # Null /\ g[pos].st.index = h[pos].st.index

\* C15: updateHistoryState and trackScrollPosition never create an entry and
\* change nothing but scrollX and scrollY of the current entry: its index and
\* URL, the other entries, the position and navigationIndex stay as they are,
\* and nothing is written when the current entry has no state.
C15_ScrollWriteFrame ==
    [][/\ \A x, y \in ScrollVals :
             OnlyScrollChanged(history, hpos, updateHistoryState(history, hpos, x, y))
       /\ (nav' = nav /\ history' # history) =>
             /\ historyState # Null
             /\ OnlyScrollChanged(history, hpos, history')
             /\ history'[hpos].st = State(historyState.index, scroll.x, scroll.y)
             /\ hpos' = hpos
             /\ navigationIndex' = navigationIndex
             /\ currentLocation' = currentLocation]_vars

C15_Witness ==
    /\ \A n \in Navs : nav[n].pc = "idle"
    /\ scrolls = 1
    /\ scroll.y = MaxScroll
    /\ historyState # Null
    /\ historyState.scrollY = MaxScroll
    /\ historyState.index = 1

\* call i of prefetchPage issued a request (fetch or link rel=prefetch)
Issued(lg, i) == lg[i].issued
\* the content of prefetchedPages before call i of log lg
PrefetchedBefore(lg, i) == {lg[j].url : j \in {k \in 1..(i - 1) : lg[k].issued}}

\* C16: over any sequence of prefetchPage calls at most one request is issued
\* per URL: a call for a URL already in prefetchedPages issues nothing and
\* leaves the set as it is, two calls made by the strategies never both issue a
\* request for the same URL, and the set never loses an element.
C16_OnePrefetchPerURL ==
    [][/\ prefetchedPages \subseteq prefetchedPages'
       /\ \A i \in 1..Len(prefetchLog') :
             /\ prefetchLog'[i].url \in PrefetchedBefore(prefetchLog', i)
                    => ~Issued(prefetchLog', i)
             /\ Issued(prefetchLog', i) => prefetchLog'[i].url \in prefetchedPages'
       /\ \A i, j \in 1..Len(prefetchLog') :
             (/\ i < j
              /\ Issued(prefetchLog', i) /\ Issued(prefetchLog', j)
              /\ prefetchLog'[i].by \in Strategies /\ prefetchLog'[j].by \in Strategies)
                 => prefetchLog'[i].url.url # prefetchLog'[j].url.url
       /\ prefetchedPages' = PrefetchedBefore(prefetchLog', Len(prefetchLog') + 1)
       /\ (\A i \in (Len(prefetchLog) + 1)..Len(prefetchLog') :
              prefetchLog'[i].url \in prefetchedPages)
             => prefetchedPages' = prefetchedPages]_vars

C16_Witness ==
    /\ Len(prefetchLog) = 2
    /\ prefetchLog[1].url = prefetchLog[2].url
    /\ prefetchLog[1].by = "hover" /\ prefetchLog[2].by = "viewport"
    /\ prefetchLog[1].issued
    /\ ~prefetchLog[2].issued
    /\ prefetchedPages = {prefetchLog[1].url}

\* C17: no navigation leaves the document partially swapped: root attributes,
\* head and body are always those of one document, and a navigation that fell
\* back to a full page load or failed did so before it modified any of them.
C17_SwapAllOrNothing ==
    /\ dom.root = dom.head
    /\ dom.head = dom.body
    /\ \A n \in Navs : nav[n].pc \in {"hard", "threw"} => ~Has(n, "swap")

Lifecycle == <<"before-preparation", "fetch", "after-preparation", "before-swap", "swap",
               "commit", "after-swap", "scripts", "page-load">>
IsLifecycleStep(e) == \E i \in 1..Len(Lifecycle) : Lifecycle[i] = e
\* the lifecycle steps navigation n has taken, in the order it took them
LifecycleOf(n) == SelectSeq(nav[n].log, IsLifecycleStep)
\* navigation n has swapped and committed, and nothing of it is left to run
Completed(n) == Has(n, "after-swap") /\ nav[n].pc \in {"swapped", "done"}

\* C18: a soft navigation that completes has taken each lifecycle step exactly
\* once and in this order: before-preparation, fetch, after-preparation,
\* before-swap, swap, commit, after-swap, script re-execution, page-load.
C18_LifecycleInOrder ==
    \A n \in Navs : Completed(n) => LifecycleOf(n) = Lifecycle

\* how many times e occurs in the log of navigation n
Count(n, e) == Len(SelectSeq(nav[n].log, LAMBDA x : x = e))

\* C19: event.swap as the engine binds it, called with no arguments by the
\* controller or by a listener, swaps the document in and raises no error, so
\* that the commit and after-swap follow.
C19_BoundSwapSwaps ==
    \A n \in Navs :
        (Has(n, "swap-call") /\ ~Has(n, "override"))
            => /\ Has(n, "swap")
               /\ dom.body = nav[n].newDocument \/ Has(n, "commit")
               /\ nav[n].result # "rejected"

\* C20: the document is swapped exactly once per navigation: event.swap is
\* called once, by the listener that calls it early or else by the controller,
\* never by both; no navigation swaps twice, and one that went on to its
\* after-swap dispatch swapped once.
C20_SwappedOnce ==
    \A n \in Navs :
        Has(n, "before-swap")
            => /\ Count(n, "swap-call") = 1
               /\ Count(n, "swap") <= 1
               /\ Has(n, "after-swap") => Count(n, "swap") = 1

\* C21: a soft navigation that has swapped reaches the finished state: once
\* nothing of it is left to run, its finished promise has settled and
\* data-mkdocs-transition and data-mkdocs-transition-fallback are gone from the
\* root, whatever the kind of transition and the fallback setting.
C21_SwappedFinishes ==
    \A n \in Navs :
        Completed(n)
            => /\ nav[n].finished \in {"fulfilled", "rejected"}
               /\ dom.transition = ""
               /\ dom.transitionFallback = ""

\* a step in which navigation n calls updateLocation: from the hash shortcut of
\* navigateToPage or after its swap
CommitStep(n) ==
    \/ nav[n].pc = "hop" /\ nav'[n].pc # "hop"
    \/ /\ nav[n].pc = "idle" /\ Called(n)'
       /\ nav'[n].from # Undef
       /\ canIntercept(hpos, nav'[n].to)
       /\ isHashNavigation(nav'[n].direction, nav'[n].from, nav'[n].to)
\* the history as updateLocation finds it: the hash shortcut comes after the
\* scroll recording of lines 252-254
HistoryAtCommit(n) ==
    IF nav[n].pc = "idle" THEN updateHistoryState(history, hpos, scroll.x, scroll.y)
    ELSE history

\* C22: a navigation that is not a traversal and commits a URL other than the
\* current one pushes, in history mode auto, exactly one entry that carries
\* index navigationIndex + 1 and scroll (0,0) and makes navigationIndex that
\* index; in history mode replace it adds no entry, keeps the current entry's
\* index and scroll under the new URL and leaves navigationIndex as it is.
C22_CommitRule ==
    [][\A n \in Navs :
          (/\ CommitStep(n)
           /\ nav'[n].navigationType # "traverse"
           /\ nav'[n].evTo # location)
              => LET h == HistoryAtCommit(n)
                     to == nav'[n].evTo
                 IN  IF nav'[n].historyMode = "replace"
                     THEN /\ h[hpos].st # Null
                          /\ history' = [h EXCEPT ![hpos].url = to]
                          /\ hpos' = hpos
                          /\ navigationIndex' = navigationIndex
                     ELSE /\ history' = SubSeq(h, 1, hpos)
                                           \o <<Entry(to, State(navigationIndex + 1, 0, 0))>>
                          /\ hpos' = hpos + 1
                          /\ navigationIndex' = navigationIndex + 1]_vars

\* the fetch of navigation n followed a redirect
Redirected(n) == nav[n].response # Null /\ nav[n].response.redirected

\* C23: when the fetch of a navigation followed a redirect to R, what comes
\* after the fetch works on R and not on the URL requested: the to of the
\* before-swap event, the URL the navigation commits to history and
\* currentLocation after the navigation are all R.
C23_RedirectTargetCommitted ==
    [][\A n \in Navs :
          (nav[n].pc = "hop" /\ Has(n, "after-swap")' /\ Redirected(n))
              => LET R == RedirectTarget(nav[n].to)
                 IN  /\ R # nav[n].to
                     /\ nav[n].swapTo = R
                     /\ currentLocation' = R
                     /\ HistoryWritten(n)' => history'[hpos'].url = R]_vars

C23_Witness ==
    \E n \in Navs :
        /\ Redirected(n)
        /\ Has(n, "pushState") /\ Has(n, "after-swap")
        /\ nav[n].to = URL("self", "/a", "")
        /\ location = URL("self", "/b", "")
        /\ currentLocation = location

\* C24: a forward navigation to the same path and query with a non-empty
\* destination fragment scrolls to the fragment: when updateLocation has
\* returned, the viewport is at the fragment's target.
C24_HashNavigationScrolls ==
    [][\A n \in Navs :
          (/\ nav[n].pc = "idle" /\ nav'[n].pc = "hash"
           /\ nav'[n].direction = "forward"
           /\ nav'[n].to.hash # "")
              => scroll' = [x |-> 0, y |-> FragmentTop(nav'[n].to.hash)]]_vars

\* the elements of the live body that carry identifier id
LiveWith(id) == {j \in 1..Len(bodySwap.live) : bodySwap.live[j].id = id}
IdsOf(body) == {body[k] : k \in 1..Len(body)}

\* each identifier at most once in the body
Unique(body) == \A i, j \in 1..Len(body) : body[i] = body[j] => i = j

\* C25: after a swap of two bodies that carry each identifier at most once,
\* an identifier present in both bodies has exactly one element, the outgoing
\* one; an identifier of the outgoing body only has none; an identifier of
\* the incoming body only keeps its incoming element; and what had the focus
\* inside a persistent element that is kept has it again, with its selection,
\* and the swap raises no error.
C25_PersistentElementsKept ==
    (bodySwap # Null /\ Unique(bodySwap.oldBody) /\ Unique(bodySwap.newBody)) =>
        /\ \A id \in IdsOf(bodySwap.oldBody) \cap IdsOf(bodySwap.newBody) :
              /\ Cardinality(LiveWith(id)) = 1
              /\ \A j \in LiveWith(id) : bodySwap.live[j].src = "outgoing"
        /\ \A id \in IdsOf(bodySwap.oldBody) \ IdsOf(bodySwap.newBody) :
              LiveWith(id) = {}
        /\ \A id \in IdsOf(bodySwap.newBody) \ IdsOf(bodySwap.oldBody) :
              /\ Cardinality(LiveWith(id)) = 1
              /\ \A j \in LiveWith(id) : bodySwap.live[j].src = "incoming"
        /\ (/\ bodySwap.active # Null
            /\ bodySwap.oldBody[bodySwap.active.k] \in IdsOf(bodySwap.newBody)) =>
              /\ ~bodySwap.threw
              /\ bodySwap.focused = Element("outgoing", bodySwap.active.k,
                                            bodySwap.oldBody[bodySwap.active.k])
              /\ bodySwap.active.kind = "text" => bodySwap.selection = Selection

\* nothing of any navigation request is left to run
Quiet == microtasks = <<>> /\ \A m \in Navs : nav[m].pc = "idle" \/ Ended(m)

\* C26: executeScripts never runs the scripts of the initial load, runs the
\* scripts of no parsed document twice, and has run the scripts that a
\* navigation's swap put into the document once when that navigation is over
\* and nothing of any other is left to run.
C26_ScriptsRunOnce ==
    /\ executed[0] = 0
    /\ \A n \in Navs : executed[n] <= 1
    /\ \A n \in Navs : (Quiet /\ Completed(n) /\ Has(n, "swap")) => executed[n] = 1

\* the two parts about a second run, which the code keeps
C26_NeverTwice ==
    /\ executed[0] = 0
    /\ \A n \in Navs : executed[n] <= 1

\* how often the links were scanned because of c
Scans(c) == Len(SelectSeq(links.scans, LAMBDA x : x = c))

\* C27: the links are scanned once for the initial load, never because of a
\* page-load event of the initial load (DOMContentLoaded, window load), and
\* once for every page-load event that a soft navigation has dispatched.
C27_LinkScans ==
    /\ Scans(Cause("setup", 0)) = 1
    /\ Scans(Cause("DOMContentLoaded", 0)) = 0
    /\ Scans(Cause("load", 0)) = 0
    /\ \A n \in Navs : Scans(Cause("navigation", n)) = Count(n, "page-load")

\* C28: between the handlers, on a page that has opted in, the current
\* history entry stores an index and navigationIndex is that index.
C28_IndexInSync ==
    (Task /\ engineInitialized /\ isViewTransitionsEnabled)
        => (historyState # Null /\ navigationIndex = historyState.index)

\* the part the code keeps: an index that is stored is navigationIndex
C28_StoredIndexInSync ==
    (Task /\ engineInitialized /\ historyState # Null) => navigationIndex = historyState.index

\* the "new" animations of emulated navigation n end in this step (line 412)
NewAnimationEnds(n) ==
    /\ ~supportsViewTransitions
    /\ nav[n].pc \in {"animNew", "hop"}
    /\ nav'[n].pc = "done"

\* C29: in the emulated transition the end of a navigation's "new" animations
\* settles the finished promise of that navigation and of no other.
C29_OwnFinishedOnly ==
    [][\A n \in Navs : NewAnimationEnds(n) =>
          /\ nav'[n].finished = "fulfilled"
          /\ \A m \in Navs \ {n} : nav'[m].finished = nav[m].finished]_vars

\* performPageSwap of emulated navigation m throws at line 402 in this step
ThrowsSkipped(m) ==
    /\ nav[m].pc = "tick"
    /\ nav'[m].pc = "threw"
    /\ ~InLog(nav'[m].log, "before-swap")

\* emulated navigation m returns from its swap in this step without starting
\* the "new" animations that its fallback asks for (line 411)
OmitsAnimation(m) ==
    /\ nav[m].pc = "hop"
    /\ InLog(nav'[m].log, "after-swap")
    /\ nav[m].fallback = "animate"
    /\ nav'[m].pc \notin {"animNew", "done"}

\* C30: the emulated navigation prepared last, on whose own handle
\* skipTransition() was not called before its swap, does not throw
\* "Transition was skipped", and so does not omit its swap, and does not omit
\* its "new" animations, whatever was called on the handles of earlier ones.
C30_SkipIsPerNavigation ==
    [][\A m \in Navs : (/\ ~supportsViewTransitions
                        /\ viewTransition = m
                        /\ ~nav'[m].skipRequested) =>
          (~ThrowsSkipped(m) /\ ~OmitsAnimation(m))]_vars

====
